---- MODULE Spec2Model ----
(***************************************************************************)
(* Transformation policies of the CMA-ES optimizers of ensmallen:          *)
(* BoundaryBoxConstraint (boundary_box_constraint.hpp) and                 *)
(* EmptyTransformation (empty_transformation.hpp).                         *)
(*                                                                         *)
(* Numbers.  The code computes in double.  The model computes in exact     *)
(* rational arithmetic extended with +Inf, -Inf and NaN, so that the       *)
(* IEEE-754 results of a division by zero are values of the model.  A      *)
(* number is a pair <<n, d>>: d > 0 is the rational n/d in lowest terms,   *)
(* <<1,0>> is +Inf, <<-1,0>> is -Inf and <<0,0>> is NaN.  Rounding of      *)
(* finite results is not modelled.                                         *)
(* The inputs of the model keep xlow - y and y - xup inside the range of   *)
(* int, where the (int) casts of Transform are defined.                    *)
(*                                                                         *)
(* Matrices.  A matrix is a record [n_rows, n_cols, mem] with mem a        *)
(* function on the 0-based index pairs, as arma::Mat is read by the code.  *)
(***************************************************************************)
EXTENDS Integers, Sequences, FiniteSets, TLC

VARIABLES kind, lowerBound, upperBound, x, y, i, j, pc, stepSize, oob

vars == <<kind, lowerBound, upperBound, x, y, i, j, pc, stepSize, oob>>

----------------------------------------------------------------------------
(* Bounds of the model. *)

\* The fine grid of coordinates runs from -GridBelow/10 to GridAbove/10.
GridBelow == 50
GridAbove == 50
\* Shapes of the coordinate matrices of the fine-grid specification.
MaxGridRows == 1
MaxGridCols == 2
\* Shapes of the bound matrices handed to the matrix constructor.
MaxBoundRows == 2
MaxBoundCols == 2

----------------------------------------------------------------------------
(* double arithmetic *)

AbsInt(n) == IF n < 0 THEN -n ELSE n

SignInt(n) == IF n > 0 THEN 1 ELSE IF n < 0 THEN -1 ELSE 0

RECURSIVE GCD(_, _)
GCD(a, b) == IF b = 0 THEN a ELSE GCD(b, a % b)

\* n/d in lowest terms, d >= 0; a zero denominator gives +Inf, -Inf or NaN.
Norm(n, d) ==
  IF d = 0 THEN <<SignInt(n), 0>>
  ELSE LET g == GCD(AbsInt(n), d) IN <<n \div g, d \div g>>

NaN == <<0, 0>>
PosInf == <<1, 0>>
Zero == <<0, 1>>
One == <<1, 1>>
Two == <<2, 1>>
Four == <<4, 1>>
Twenty == <<20, 1>>

IsNaN(a) == a = NaN
IsFinite(a) == a[2] > 0
IsInf(a) == a[2] = 0 /\ a[1] # 0

\* int -> double
FromInt(k) == <<k, 1>>

RNeg(a) == <<-a[1], a[2]>>

RAdd(a, b) ==
  IF IsInf(a) /\ IsInf(b) THEN (IF a = b THEN a ELSE NaN)
  ELSE Norm(a[1] * b[2] + b[1] * a[2], a[2] * b[2])

RSub(a, b) == RAdd(a, RNeg(b))

RMul(a, b) == Norm(a[1] * b[1], a[2] * b[2])

\* 1/b; 1/0 is Inf (the sign of a zero is not modelled), 1/Inf is 0.
RRecip(b) ==
  IF IsNaN(b) THEN NaN
  ELSE IF IsInf(b) THEN Zero
  ELSE IF b[1] = 0 THEN PosInf
  ELSE IF b[1] > 0 THEN <<b[2], b[1]>>
  ELSE <<-b[2], -b[1]>>

RDiv(a, b) == RMul(a, RRecip(b))

\* a < b; every comparison with NaN is false.
RLt(a, b) ==
  IF IsNaN(a) \/ IsNaN(b) THEN FALSE
  ELSE IF IsInf(a) /\ IsInf(b) THEN a[1] < b[1]
  ELSE a[1] * b[2] < b[1] * a[2]

RLe(a, b) ==
  IF IsNaN(a) \/ IsNaN(b) THEN FALSE
  ELSE a = b \/ RLt(a, b)

\* std::min(a, b) is (b < a) ? b : a
RMin(a, b) == IF RLt(b, a) THEN b ELSE a

\* std::abs
RAbs(a) == <<AbsInt(a[1]), a[2]>>

\* (int) of a finite double inside the range of int: truncation toward zero.
Trunc(a) ==
  IF a[1] >= 0 THEN a[1] \div a[2] ELSE -((-a[1]) \div a[2])

----------------------------------------------------------------------------
(* arma::Mat *)

Indices(R, C) == (0 .. (R - 1)) \X (0 .. (C - 1))

Mat(R, C, f) == [n_rows |-> R, n_cols |-> C, mem |-> f]

EmptyMat == Mat(0, 0, [p \in {} |-> Zero])

\* The 1 x 1 matrix { v } of the scalar constructor.
ScalarMat(v) == Mat(1, 1, [p \in Indices(1, 1) |-> v])

IndicesOf(m) == Indices(m.n_rows, m.n_cols)

InRange(m, r, c) == r < m.n_rows /\ c < m.n_cols

At(m, r, c) == m.mem[<<r, c>>]

----------------------------------------------------------------------------
(* BoundaryBoxConstraint::Transform, one element *)

\* (size_t)0 - 1 wraps to SIZE_MAX = 2^64 - 1.  The model writes the largest
\* integer it represents; only its exceeding every matrix dimension matters.
SIZE_MAX == 2147483647

\* n - 1 on size_t
SizeMinusOne(n) == IF n = 0 THEN SIZE_MAX ELSE n - 1

\* A slip in the broadcast: an index past the bounds reuses the first entry.
BoundIndexFirst(k, n) == IF k < n THEN k ELSE 0

\* Bi = (i < lowerBound.n_rows) ? i : (lowerBound.n_rows - 1), and Bj alike.
BoundIndex(k, n) == IF k < n THEN k ELSE SizeMinusOne(n)

Diff(lb, ub) == RDiv(RSub(ub, lb), Two)

Al(lb, ub) == RMin(Diff(lb, ub), RDiv(RAdd(One, RAbs(lb)), Twenty))

Au(lb, ub) == RMin(Diff(lb, ub), RDiv(RAdd(One, RAbs(ub)), Twenty))

XLow(lb, ub) == RSub(RSub(lb, RMul(Two, Al(lb, ub))), Diff(lb, ub))

XUp(lb, ub) == RAdd(RAdd(ub, RMul(Two, Au(lb, ub))), Diff(lb, ub))

Period(lb, ub) ==
  RMul(Two, RAdd(RAdd(RMul(Two, Diff(lb, ub)), Al(lb, ub)), Au(lb, ub)))

\* r * (1 + (int)(d) / r): the cast applies to d alone, and the int is then
\* divided by the double r.
FoldAmount(d, r) == RMul(r, RAdd(One, RDiv(FromInt(Trunc(d)), r)))

\* "Shift y into feasible pre-image", first two ifs.
Fold(v, lb, ub) ==
  LET xlow == XLow(lb, ub)
      xup == XUp(lb, ub)
      r == Period(lb, ub)
      y1 == IF RLt(v, xlow) THEN RAdd(v, FoldAmount(RSub(xlow, v), r)) ELSE v
  IN IF RLt(xup, y1) THEN RSub(y1, FoldAmount(RSub(y1, xup), r)) ELSE y1

\* "Shift y into feasible pre-image", last two ifs.
Reflect(v, lb, ub) ==
  LET lo == RSub(lb, Al(lb, ub))
      hi == RAdd(ub, Au(lb, ub))
      y1 == IF RLt(v, lo) THEN RAdd(v, RMul(Two, RSub(lo, v))) ELSE v
  IN IF RLt(hi, y1)
       THEN RSub(y1, RMul(Two, RSub(RSub(y1, ub), Au(lb, ub))))
       ELSE y1

\* A slip in the quadratic piece: / 2.0 / al.
QuadLowerHalved(v, lb, al) ==
  LET d == RSub(v, RSub(lb, al))
  IN RAdd(lb, RDiv(RDiv(RMul(d, d), Two), al))

\* lowerBound + (y - (lowerBound - al)) * (y - (lowerBound - al)) / 4.0 / al
QuadLower(v, lb, al) ==
  LET d == RSub(v, RSub(lb, al))
  IN RAdd(lb, RDiv(RDiv(RMul(d, d), Four), al))

\* upperBound - (y - (upperBound + au)) * (y - (upperBound + au)) / 4.0 / au
QuadUpper(v, ub, au) ==
  LET d == RSub(v, RAdd(ub, au))
  IN RSub(ub, RDiv(RDiv(RMul(d, d), Four), au))

\* A slip in the band tests: bands of width 2 * al and 2 * au.
SmoothWideBand(v, lb, ub) ==
  IF RLt(v, RAdd(lb, RMul(Two, Al(lb, ub)))) THEN QuadLower(v, lb, Al(lb, ub))
  ELSE IF RLt(RSub(ub, RMul(Two, Au(lb, ub))), v)
    THEN QuadUpper(v, ub, Au(lb, ub))
  ELSE v

\* "Boundary transformation".
Smooth(v, lb, ub) ==
  IF RLt(v, RAdd(lb, Al(lb, ub))) THEN QuadLower(v, lb, Al(lb, ub))
  ELSE IF RLt(RSub(ub, Au(lb, ub)), v) THEN QuadUpper(v, ub, Au(lb, ub))
  ELSE v

\* The body of the inner loop for one element.
ElemTransform(v, lb, ub) == Smooth(Reflect(Fold(v, lb, ub), lb, ub), lb, ub)

\* 0.3 * arma::min(arma::min(upperBound - lowerBound)): the minimum of each
\* column, then the minimum of those.
RECURSIVE ColMin(_, _, _, _)
ColMin(lo, up, c, n) ==
  LET d == RSub(At(up, n - 1, c), At(lo, n - 1, c))
  IN IF n = 1 THEN d ELSE RMin(ColMin(lo, up, c, n - 1), d)

RECURSIVE MinOfColMins(_, _, _)
MinOfColMins(lo, up, n) ==
  LET m == ColMin(lo, up, n - 1, lo.n_rows)
  IN IF n = 1 THEN m ELSE RMin(MinOfColMins(lo, up, n - 1), m)

\* A slip in the minimum: arma::min taken once, and its first column read.
StepSizeOfFirstColumn(lo, up) == RMul(<<3, 10>>, ColMin(lo, up, 0, lo.n_rows))

StepSizeOf(lo, up) == RMul(<<3, 10>>, MinOfColMins(lo, up, lo.n_cols))

----------------------------------------------------------------------------
(* Inputs *)

\* Bound values: the box [-1, 1] has r = 4.4, the box [-1, -9/10] has r = 0.4.
BoundVals == {<<-1, 1>>, <<-9, 10>>, <<1, 1>>}

\* Entries of the bound matrices: the boxes [-1, 0], [-1, 1] and [0, 1] and
\* the degenerate box [0, 0].
LowerVals == {<<-1, 1>>, <<0, 1>>}

UpperVals == {<<0, 1>>, <<1, 1>>}

BoundShapes == (1 .. MaxBoundRows) \X (1 .. MaxBoundCols)

\* The R x C matrix whose entry depends on whether it lies in the last row
\* and on whether it lies in the last column.
Quadrants(R, C, f) ==
  Mat(R, C, [p \in Indices(R, C) |-> f[<<p[1] = R - 1, p[2] = C - 1>>]])

\* Lower bounds handed to the matrix constructor.
LowerMats ==
  {Quadrants(s[1], s[2], f) :
     <<s, f>> \in BoundShapes \X [BOOLEAN \X BOOLEAN -> LowerVals]}

\* Upper bounds handed to the matrix constructor: one value in every entry.
UpperMats ==
  {Mat(s[1], s[2], [p \in Indices(s[1], s[2]) |-> v]) :
     <<s, v>> \in BoundShapes \X UpperVals}

GridStep == <<1, 10>>

Grid == {Norm(k, 10) : k \in (-GridBelow) .. GridAbove}

\* The R x C matrix whose elements, row by row, are a, a + h, a + 2h, ...
ConsecMat(R, C, a, h) ==
  Mat(R, C, [p \in Indices(R, C) |-> RAdd(a, RMul(FromInt(p[1] * C + p[2]), h))])

XGrid ==
  {ConsecMat(R, C, a, GridStep) :
     <<R, C, a>> \in (1 .. MaxGridRows) \X (1 .. MaxGridCols) \X Grid}

CoarseStarts == {<<-5, 2>>}

CoarseStep == <<1, 2>>

XCoarse ==
  {ConsecMat(R, C, a, CoarseStep) :
     <<R, C, a>> \in
       (1 .. (MaxBoundRows + 1)) \X (1 .. (MaxBoundCols + 1)) \X CoarseStarts}

\* What a read outside a matrix may yield in a build without bounds checks.
Garbage == BoundVals \cup {NaN}

----------------------------------------------------------------------------
(* State machine *)

Init ==
  /\ kind = "none"
  /\ lowerBound = EmptyMat
  /\ upperBound = EmptyMat
  /\ x = EmptyMat
  /\ y = EmptyMat
  /\ i = 0
  /\ j = 0
  /\ pc = "new"
  /\ stepSize = Zero
  /\ oob = FALSE

\* BoundaryBoxConstraint()
ConstructDefault ==
  /\ pc = "new"
  /\ kind' = "box"
  /\ pc' = "ready"
  /\ UNCHANGED <<lowerBound, upperBound, x, y, i, j, stepSize, oob>>

\* BoundaryBoxConstraint(const MatType&, const MatType&)
ConstructMatrices(Ls, Us) ==
  /\ pc = "new"
  /\ kind' = "box"
  /\ \E lo \in Ls, up \in Us :
       /\ lowerBound' = lo
       /\ upperBound' = up
  /\ pc' = "ready"
  /\ UNCHANGED <<x, y, i, j, stepSize, oob>>

\* BoundaryBoxConstraint(const double, const double)
ConstructScalars(Vs) ==
  /\ pc = "new"
  /\ kind' = "box"
  /\ \E lo \in Vs, up \in Vs :
       /\ lowerBound' = ScalarMat(lo)
       /\ upperBound' = ScalarMat(up)
  /\ pc' = "ready"
  /\ UNCHANGED <<x, y, i, j, stepSize, oob>>

\* EmptyTransformation()
ConstructEmpty ==
  /\ pc = "new"
  /\ kind' = "empty"
  /\ pc' = "ready"
  /\ UNCHANGED <<lowerBound, upperBound, x, y, i, j, stepSize, oob>>

\* Transform(x) up to the first loop test: MatType y = x.
TransformCall(Xs) ==
  /\ pc = "ready"
  /\ kind = "box"
  /\ \E xin \in Xs :
       /\ x' = xin
       /\ y' = xin
       /\ pc' = IF xin.n_rows > 0 /\ xin.n_cols > 0 THEN "fold" ELSE "returned"
  /\ i' = 0
  /\ j' = 0
  /\ UNCHANGED <<kind, lowerBound, upperBound, stepSize, oob>>

Bi == BoundIndex(i, lowerBound.n_rows)
Bj == BoundIndex(j, lowerBound.n_cols)

ReadsInRange == InRange(lowerBound, Bi, Bj) /\ InRange(upperBound, Bi, Bj)

\* The next element in the order of the two for loops, or the return.
Advance ==
  IF j + 1 < x.n_cols THEN i' = i /\ j' = j + 1 /\ pc' = "fold"
  ELSE IF i + 1 < x.n_rows THEN i' = i + 1 /\ j' = 0 /\ pc' = "fold"
  ELSE i' = i /\ j' = j /\ pc' = "returned"

FoldStep ==
  /\ pc = "fold"
  /\ ReadsInRange
  /\ y' = [y EXCEPT !.mem[<<i, j>>] =
             Fold(@, At(lowerBound, Bi, Bj), At(upperBound, Bi, Bj))]
  /\ pc' = "reflect"
  /\ UNCHANGED <<kind, lowerBound, upperBound, x, i, j, stepSize, oob>>

ReflectStep ==
  /\ pc = "reflect"
  /\ y' = [y EXCEPT !.mem[<<i, j>>] =
             Reflect(@, At(lowerBound, Bi, Bj), At(upperBound, Bi, Bj))]
  /\ pc' = "smooth"
  /\ UNCHANGED <<kind, lowerBound, upperBound, x, i, j, stepSize, oob>>

SmoothStep ==
  /\ pc = "smooth"
  /\ y' = [y EXCEPT !.mem[<<i, j>>] =
             Smooth(@, At(lowerBound, Bi, Bj), At(upperBound, Bi, Bj))]
  /\ Advance
  /\ UNCHANGED <<kind, lowerBound, upperBound, x, stepSize, oob>>

\* A read outside lowerBound or upperBound where arma checks the index:
\* std::logic_error leaves Transform.
OobThrow ==
  /\ pc = "fold"
  /\ ~ReadsInRange
  /\ oob' = TRUE
  /\ pc' = "threw"
  /\ UNCHANGED <<kind, lowerBound, upperBound, x, y, i, j, stepSize>>

\* The same read where arma does not check (ARMA_NO_DEBUG): the element is
\* computed from whatever the two reads yield.  The behaviour of the rest of
\* the call is undefined, and the model follows it no further.
OobUnchecked ==
  /\ pc = "fold"
  /\ ~ReadsInRange
  /\ oob' = TRUE
  /\ \E gl \in Garbage, gu \in Garbage :
       y' = [y EXCEPT !.mem[<<i, j>>] = ElemTransform(@, gl, gu)]
  /\ pc' = "undefined"
  /\ UNCHANGED <<kind, lowerBound, upperBound, x, i, j, stepSize>>

SameShape(a, b) == a.n_rows = b.n_rows /\ a.n_cols = b.n_cols

NonEmpty(a) == a.n_rows > 0 /\ a.n_cols > 0

\* initialStepSize()
InitialStepSize ==
  /\ pc = "ready"
  /\ kind = "box"
  /\ SameShape(lowerBound, upperBound)
  /\ NonEmpty(lowerBound)
  /\ stepSize' = StepSizeOf(lowerBound, upperBound)
  /\ pc' = "stepped"
  /\ UNCHANGED <<kind, lowerBound, upperBound, x, y, i, j, oob>>

\* initialStepSize() on bounds arma cannot subtract or take the minimum of:
\* it throws where it checks, and yields anything where it does not.
InitialStepSizeFails ==
  /\ pc = "ready"
  /\ kind = "box"
  /\ ~(SameShape(lowerBound, upperBound) /\ NonEmpty(lowerBound))
  /\ \/ pc' = "threw" /\ stepSize' = stepSize
     \/ pc' = "stepped" /\ stepSize' \in Garbage
  /\ UNCHANGED <<kind, lowerBound, upperBound, x, y, i, j, oob>>

\* EmptyTransformation::Transform
EmptyTransform(Xs) ==
  /\ pc = "ready"
  /\ kind = "empty"
  /\ \E xin \in Xs :
       /\ x' = xin
       /\ y' = xin
  /\ pc' = "returned"
  /\ UNCHANGED <<kind, lowerBound, upperBound, i, j, stepSize, oob>>

\* EmptyTransformation::initialStepSize
EmptyInitialStepSize ==
  /\ pc = "ready"
  /\ kind = "empty"
  /\ stepSize' = One
  /\ pc' = "stepped"
  /\ UNCHANGED <<kind, lowerBound, upperBound, x, y, i, j, oob>>

Steps ==
  \/ ConstructDefault
  \/ ConstructEmpty
  \/ FoldStep
  \/ ReflectStep
  \/ SmoothStep
  \/ OobThrow
  \/ OobUnchecked
  \/ InitialStepSize
  \/ InitialStepSizeFails
  \/ EmptyInitialStepSize

\* Scalar bounds, coordinates on the fine grid.
Next ==
  \/ Steps
  \/ ConstructScalars(BoundVals)
  \/ TransformCall(XGrid)
  \/ EmptyTransform(XGrid)

Spec == Init /\ [][Next]_vars

\* Matrix and scalar bounds of every shape, a few coordinate matrices.
NextShapes ==
  \/ Steps
  \/ ConstructScalars(BoundVals)
  \/ ConstructMatrices(LowerMats, UpperMats)
  \/ TransformCall(XCoarse)
  \/ EmptyTransform(XCoarse)

SpecShapes == Init /\ [][NextShapes]_vars

----------------------------------------------------------------------------
(* Vocabulary of the properties *)

MinInt(a, b) == IF a < b THEN a ELSE b

InCall == pc \in {"fold", "reflect", "smooth", "returned"}

\* Bounds of one shape with at least one entry.
WellFormed ==
  kind = "box" /\ NonEmpty(lowerBound) /\ SameShape(lowerBound, upperBound)

\* lower < upper on every dimension.
Proper ==
  /\ WellFormed
  /\ \A p \in IndicesOf(lowerBound) : RLt(lowerBound.mem[p], upperBound.mem[p])

\* The bound entries that apply to element p of x.
LowerFor(p) ==
  At(lowerBound, MinInt(p[1], lowerBound.n_rows - 1),
                 MinInt(p[2], lowerBound.n_cols - 1))

UpperFor(p) ==
  At(upperBound, MinInt(p[1], upperBound.n_rows - 1),
                 MinInt(p[2], upperBound.n_cols - 1))

\* Element p comes before element (i, j) in the order of the loops.
Before(p) == p[1] < i \/ (p[1] = i /\ p[2] < j)

\* Horizontal neighbours of x: their inputs differ by the grid step.
Neighbours ==
  {<<p, q>> \in IndicesOf(x) \X IndicesOf(x) : q[1] = p[1] /\ q[2] = p[2] + 1}

\* |a - b| <= h
Within(a, b, h) == RLe(RSub(a, b), h) /\ RLe(RSub(b, a), h)

\* d = k * r for an integer k
IsMultiple(d, r) == LET q == RDiv(d, r) IN q[2] = 1

----------------------------------------------------------------------------
(* C1 *)

\* C1: for every box with lower < upper on every dimension and every input,
\* every element of the matrix Transform returns lies between the lower and the
\* upper bound entry that applies to it.
C1_OutputInBox ==
  (pc = "returned" /\ Proper) =>
    \A p \in IndicesOf(x) :
      RLe(LowerFor(p), y.mem[p]) /\ RLe(y.mem[p], UpperFor(p))

----------------------------------------------------------------------------
(* C2 *)

\* C2: with lower < upper, the value of an element after the first two ifs of
\* "shift into feasible pre-image" lies in [xlow, xup] and differs from the
\* input element by an integer multiple of the period r.
C2_FoldIsPeriodic ==
  (pc = "reflect" /\ Proper) =>
    LET lb == LowerFor(<<i, j>>)
        ub == UpperFor(<<i, j>>)
        v == y.mem[<<i, j>>]
    IN /\ RLe(XLow(lb, ub), v)
       /\ RLe(v, XUp(lb, ub))
       /\ IsMultiple(RSub(v, x.mem[<<i, j>>]), Period(lb, ub))

----------------------------------------------------------------------------
(* C3 *)

InInner(v, lb, ub) ==
  RLe(RAdd(lb, Al(lb, ub)), v) /\ RLe(v, RSub(ub, Au(lb, ub)))

\* C3: with lower < upper, every input element x with
\* lower + al <= x <= upper - au is returned unchanged, the two endpoints
\* included.
C3_IdentityOnInnerRegion ==
  (pc = "returned" /\ Proper) =>
    \A p \in IndicesOf(x) :
      InInner(x.mem[p], LowerFor(p), UpperFor(p)) => y.mem[p] = x.mem[p]

\* Transform has returned an input that sits exactly on the endpoint
\* lower + al, next to another input of the inner region.
C3_EndpointReturned ==
  /\ pc = "returned"
  /\ Proper
  /\ x.n_cols = 2
  /\ x.mem[<<0, 0>>] = RAdd(LowerFor(<<0, 0>>),
                            Al(LowerFor(<<0, 0>>), UpperFor(<<0, 0>>)))
  /\ InInner(x.mem[<<0, 1>>], LowerFor(<<0, 1>>), UpperFor(<<0, 1>>))
  /\ y = x

----------------------------------------------------------------------------
(* C4 *)

LowerEdge(lb, ub) == RAdd(lb, Al(lb, ub))

UpperEdge(lb, ub) == RSub(ub, Au(lb, ub))

\* Inputs a <= b of one box with a band edge between them.
Straddles(a, b, lb, ub) ==
  \/ RLe(a, LowerEdge(lb, ub)) /\ RLe(LowerEdge(lb, ub), b)
  \/ RLe(a, UpperEdge(lb, ub)) /\ RLe(UpperEdge(lb, ub), b)

\* C4: with lower < upper, the quadratic pieces meet the identity piece at
\* lower + al and at upper - au, and the outputs of two neighbouring grid
\* inputs on either side of such an edge differ by no more than the inputs.
C4_NoJumpAtBandEdges ==
  (pc = "returned" /\ Proper) =>
    \A n \in Neighbours :
      LET p == n[1]
          q == n[2]
          lb == LowerFor(p)
          ub == UpperFor(p)
      IN (lb = LowerFor(q) /\ ub = UpperFor(q)) =>
           /\ QuadLower(LowerEdge(lb, ub), lb, Al(lb, ub)) = LowerEdge(lb, ub)
           /\ QuadUpper(UpperEdge(lb, ub), ub, Au(lb, ub)) = UpperEdge(lb, ub)
           /\ Straddles(x.mem[p], x.mem[q], lb, ub) =>
                Within(y.mem[p], y.mem[q], RSub(x.mem[q], x.mem[p]))

\* Two neighbouring inputs strictly on either side of lower + al, the first
\* moved by the quadratic piece and the second returned as it is.
C4_EdgeCrossed ==
  /\ pc = "returned"
  /\ Proper
  /\ x.n_cols = 2
  /\ RLt(x.mem[<<0, 0>>], LowerEdge(LowerFor(<<0, 0>>), UpperFor(<<0, 0>>)))
  /\ RLt(LowerEdge(LowerFor(<<0, 0>>), UpperFor(<<0, 0>>)), x.mem[<<0, 1>>])
  /\ y.mem[<<0, 0>>] # x.mem[<<0, 0>>]
  /\ y.mem[<<0, 1>>] = x.mem[<<0, 1>>]

----------------------------------------------------------------------------
(* C5 *)

\* C5: with lower < upper, the outputs of any two neighbouring grid inputs,
\* wherever they lie on the input line, differ by no more than the inputs.
C5_ContinuousEverywhere ==
  (pc = "returned" /\ Proper) =>
    \A n \in Neighbours :
      (LowerFor(n[1]) = LowerFor(n[2]) /\ UpperFor(n[1]) = UpperFor(n[2])) =>
        Within(y.mem[n[1]], y.mem[n[2]], RSub(x.mem[n[2]], x.mem[n[1]]))

----------------------------------------------------------------------------
(* C6 *)

\* The first two ifs divide by r when the element lies outside [xlow, xup].
FoldDivides(v, lb, ub) == RLt(v, XLow(lb, ub)) \/ RLt(XUp(lb, ub), v)

\* C6: on a dimension with lower = upper, Transform divides by no zero r and
\* returns the input element unchanged.
C6_DegenerateIsIdentity ==
  /\ (pc = "fold" /\ WellFormed) =>
       LET lb == LowerFor(<<i, j>>)
           ub == UpperFor(<<i, j>>)
       IN (lb = ub /\ FoldDivides(y.mem[<<i, j>>], lb, ub)) =>
            Period(lb, ub) # Zero
  /\ (pc = "returned" /\ WellFormed) =>
       \A p \in IndicesOf(x) :
         LowerFor(p) = UpperFor(p) => y.mem[p] = x.mem[p]

----------------------------------------------------------------------------
(* C7 *)

Inverted ==
  \E p \in IndicesOf(lowerBound) \cap IndicesOf(upperBound) :
    RLt(upperBound.mem[p], lowerBound.mem[p])

\* C7: no BoundaryBoxConstraint with lower > upper on some dimension gets as
\* far as Transform or initialStepSize.
C7_InvertedBoundsRejected ==
  (kind = "box" /\ (InCall \/ pc = "stepped")) => ~Inverted

----------------------------------------------------------------------------
(* C8 *)

\* C8: with non-empty bounds of one shape R x C, element (i, j) of x is
\* transformed with the bound entries at (min(i, R-1), min(j, C-1)) and with
\* nothing else: while the call runs, the elements already visited hold that
\* result and the elements not yet visited hold their input.
C8_Broadcast ==
  (InCall /\ WellFormed) =>
    \A p \in IndicesOf(x) :
      IF pc = "returned" \/ Before(p)
        THEN y.mem[p] = ElemTransform(x.mem[p], LowerFor(p), UpperFor(p))
        ELSE p # <<i, j>> => y.mem[p] = x.mem[p]

\* Transform has returned a 3 x 3 matrix under 2 x 2 bounds whose last entry
\* is the only box with lower < upper, and the last element of x, which reuses
\* that entry, was moved into the box.
C8_BroadcastBeyondBounds ==
  /\ pc = "returned"
  /\ WellFormed
  /\ lowerBound.n_rows = 2 /\ lowerBound.n_cols = 2
  /\ x.n_rows = 3 /\ x.n_cols = 3
  /\ \A p \in IndicesOf(lowerBound) :
       RLt(lowerBound.mem[p], upperBound.mem[p]) <=> p = <<1, 1>>
  /\ y.mem[<<2, 2>>] # x.mem[<<2, 2>>]
  /\ RLe(At(lowerBound, 1, 1), y.mem[<<2, 2>>])
  /\ RLe(y.mem[<<2, 2>>], At(upperBound, 1, 1))

----------------------------------------------------------------------------
(* C9 *)

ThreeTenths(d) == RMul(<<3, 10>>, d)

\* C9: initialStepSize of a box is 0.3 times the least upper - lower over all
\* entries of the bounds, hence positive when lower < upper everywhere; that of
\* the empty transformation is 1.
C9_InitialStepSize ==
  /\ (pc = "stepped" /\ WellFormed) =>
       /\ \A p \in IndicesOf(lowerBound) :
            RLe(stepSize, ThreeTenths(RSub(upperBound.mem[p], lowerBound.mem[p])))
       /\ \E p \in IndicesOf(lowerBound) :
            stepSize = ThreeTenths(RSub(upperBound.mem[p], lowerBound.mem[p]))
       /\ Proper => RLt(Zero, stepSize)
  /\ (pc = "stepped" /\ kind = "empty") => stepSize = One

\* initialStepSize has returned for 2 x 2 bounds with lower < upper everywhere
\* whose least range is not in the first row.
C9_MinimumInLastRow ==
  /\ pc = "stepped"
  /\ Proper
  /\ lowerBound.n_rows = 2 /\ lowerBound.n_cols = 2
  /\ \A c \in 0 .. 1 :
       RLt(stepSize, ThreeTenths(RSub(At(upperBound, 0, c), At(lowerBound, 0, c))))

----------------------------------------------------------------------------
(* C10 *)

\* C10: when Transform is about to read lowerBound(Bi, Bj) and
\* upperBound(Bi, Bj), the index lies inside both matrices.
C10_BoundReadsInRange ==
  (pc = "fold" /\ kind = "box") =>
    /\ Bi < lowerBound.n_rows /\ Bj < lowerBound.n_cols
    /\ Bi < upperBound.n_rows /\ Bj < upperBound.n_cols

====
